---- MODULE Spec2Model ----
(***************************************************************************)
(* Routing and resilience engine of the Cost/SLO-aware LLM inference       *)
(* router: the per-provider circuit breaker, outcome statistics and retry  *)
(* wrapper (internal/providers/provider.go) and the policy engine          *)
(* (internal/router/policies.go).                                          *)
(*                                                                         *)
(* SpecProvider: one ResilientProvider shared by concurrent callers of     *)
(* Complete.  Time is a discrete clock; one tick is the unit in which the  *)
(* cooldown and the per-attempt timeout are expressed.                     *)
(* SpecEngine: one Engine over the providers HandleInfer registers, its    *)
(* methods called one at a time.                                           *)
(* SpecInfer: concurrent requests in HandleInfer (Choose, Complete,        *)
(* RecordResult), with cheapestPair's unlocked sort taken step by step.    *)
(* SpecCanary: the canary call counter over whole evaluation windows.      *)
(* SpecFailedCalls: every reported call a failed call of the candidate.    *)
(* SpecAdmin: the canary controller under the admin handlers               *)
(* (advance, rollback) and reconfiguration.                                *)
(* SpecPolicy: the default policy under HandlePolicyUpdate and the         *)
(* requests that name no policy.                                           *)
(* SpecStats, SpecP95, SpecRing: one Stats by itself, recorded into and    *)
(* read.                                                                   *)
(* SpecLock, SpecDraw: concurrent callers of RecordResult and of           *)
(* Choose("canary") with the engine mutex made explicit.                   *)
(* SpecProviderLive: SpecProvider with time that never stops and weak      *)
(* fairness, for the breaker's progress.                                   *)
(***************************************************************************)
EXTENDS Integers, Sequences, FiniteSets, TLC

\* ---------------------------------------------------------------- bounds
MaxTime == 2           \* last clock value
MaxRetries == 1        \* ResilienceOptions.MaxRetries
CBWindowSize == 2      \* ResilienceOptions.CBWindowSize
CBCooldown == 1        \* ResilienceOptions.CBCooldown, in ticks
Timeout == 2           \* ResilienceOptions.Timeout, in ticks
StatsWindow == 2       \* Stats.windowSize
MaxObs == 3            \* outcomes recorded into provider Stats in one engine behaviour
MaxCanaryCalls == 2    \* last value of the canary call counter
MaxRequests == 3       \* requests taken by HandleInfer in one behaviour
MaxWindows == 3        \* canary evaluation windows in one behaviour
MaxFed == 4            \* outcomes recorded into a Stats on its own
MaxRun == 22           \* longest run of fast successes in a Stats drawn at once
MaxSlow == 2           \* longest run of slow successes in a Stats drawn at once
MaxEvict == 1          \* outcomes recorded into a full Stats ring
MaxAdmin == 2          \* requests taken by the admin handlers in one behaviour

\* ----------------------------------------------------- program constants
SloTargetInv == 100    \* 1 / sloTarget
CanaryWindow == 200    \* calls between two canary evaluations
CanaryBurn == 2        \* burn above which the canary rolls back

\* the concurrent callers: of Complete on the provider, of HandleInfer
Threads == {1, 2}

\* ------------------------------------------------------- sequence helpers
\* s[len(s)-n:] when len(s) > n, else s
LastN(s, n) == IF Len(s) > n THEN SubSeq(s, Len(s) - n + 1, Len(s)) ELSE s

\* number of true flags in a sequence of booleans
CountErrs(w) == Cardinality({i \in 1..Len(w) : w[i]})

\* ------------------------------------------------------------------ Stats
NewStats == <<>>

\* Stats.Record keeping the first windowSize outcomes instead of the last
StatsRecordKeepsOldest(outcomes, latencyMs, err) ==
    LET all == Append(outcomes, [LatencyMs |-> latencyMs, Err |-> err]) IN
    IF Len(all) > StatsWindow THEN SubSeq(all, 1, StatsWindow) ELSE all

\* Stats.Record: append, then keep the last windowSize outcomes.  Outcome.At
\* is left out: only ErrorRateSince reads it, and no policy calls that.
StatsRecord(outcomes, latencyMs, err) ==
    LastN(Append(outcomes, [LatencyMs |-> latencyMs, Err |-> err]), StatsWindow)

\* --------------------------------------------------------- CircuitBreaker
NewCircuitBreaker ==
    [window |-> <<>>, open |-> FALSE, openedAt |-> 0, halfOpenProbe |-> FALSE]

\* Allow with the probe flag set before the cooldown is looked at
AllowMarksProbeFirst(b, t) ==
    IF ~b.open THEN [ok |-> TRUE, cb |-> b]
    ELSE IF ~b.halfOpenProbe
         THEN [ok |-> t - b.openedAt >= CBCooldown,
               cb |-> [b EXCEPT !.halfOpenProbe = TRUE]]
         ELSE [ok |-> FALSE, cb |-> b]

\* Allow admitting the probe only strictly after the cooldown
AllowStrictlyAfterCooldown(b, t) ==
    IF ~b.open THEN [ok |-> TRUE, cb |-> b]
    ELSE IF t - b.openedAt > CBCooldown /\ ~b.halfOpenProbe
         THEN [ok |-> TRUE, cb |-> [b EXCEPT !.halfOpenProbe = TRUE]]
         ELSE [ok |-> FALSE, cb |-> b]

\* CircuitBreaker.Allow at clock value t: the returned flag and the breaker
\* it leaves behind
Allow(b, t) ==
    IF ~b.open THEN [ok |-> TRUE, cb |-> b]
    ELSE IF t - b.openedAt >= CBCooldown /\ ~b.halfOpenProbe
         THEN [ok |-> TRUE, cb |-> [b EXCEPT !.halfOpenProbe = TRUE]]
         ELSE [ok |-> FALSE, cb |-> b]

\* OnResult tripping at an error ratio of one half already
OnResultTripsAtHalf(b, err, t) ==
    LET w == LastN(Append(b.window, err), CBWindowSize) IN
    IF b.halfOpenProbe
    THEN IF ~err
         THEN [b EXCEPT !.halfOpenProbe = FALSE, !.open = FALSE, !.window = <<>>]
         ELSE [b EXCEPT !.halfOpenProbe = FALSE, !.open = TRUE,
                        !.openedAt = t, !.window = w]
    ELSE IF Len(w) >= CBWindowSize /\ 2 * CountErrs(w) >= Len(w)
         THEN [b EXCEPT !.open = TRUE, !.openedAt = t, !.window = w]
         ELSE [b EXCEPT !.window = w]

\* OnResult closing after a successful probe without clearing the ring
OnResultKeepsRing(b, err, t) ==
    LET w == LastN(Append(b.window, err), CBWindowSize) IN
    IF b.halfOpenProbe
    THEN IF ~err
         THEN [b EXCEPT !.halfOpenProbe = FALSE, !.open = FALSE, !.window = w]
         ELSE [b EXCEPT !.halfOpenProbe = FALSE, !.open = TRUE,
                        !.openedAt = t, !.window = w]
    ELSE IF Len(w) >= CBWindowSize /\ 2 * CountErrs(w) > Len(w)
         THEN [b EXCEPT !.open = TRUE, !.openedAt = t, !.window = w]
         ELSE [b EXCEPT !.window = w]

\* OnResult closing the breaker on every success that reaches it while open
OnResultSuccessCloses(b, err, t) ==
    LET w == LastN(Append(b.window, err), CBWindowSize) IN
    IF b.halfOpenProbe \/ (b.open /\ ~err)
    THEN IF ~err
         THEN [b EXCEPT !.halfOpenProbe = FALSE, !.open = FALSE, !.window = <<>>]
         ELSE [b EXCEPT !.halfOpenProbe = FALSE, !.open = TRUE,
                        !.openedAt = t, !.window = w]
    ELSE IF Len(w) >= CBWindowSize /\ 2 * CountErrs(w) > Len(w)
         THEN [b EXCEPT !.open = TRUE, !.openedAt = t, !.window = w]
         ELSE [b EXCEPT !.window = w]

\* OnResult leaving the probe flag set when the probe failed
OnResultFailedProbeKeepsFlag(b, err, t) ==
    LET w == LastN(Append(b.window, err), CBWindowSize) IN
    IF b.halfOpenProbe
    THEN IF ~err
         THEN [b EXCEPT !.halfOpenProbe = FALSE, !.open = FALSE, !.window = <<>>]
         ELSE [b EXCEPT !.open = TRUE, !.openedAt = t, !.window = w]
    ELSE IF Len(w) >= CBWindowSize /\ 2 * CountErrs(w) > Len(w)
         THEN [b EXCEPT !.open = TRUE, !.openedAt = t, !.window = w]
         ELSE [b EXCEPT !.window = w]

\* CircuitBreaker.OnResult at clock value t.  float64(errs)/float64(len) > 0.5
\* is exact for window lengths this small, so it is 2*errs > len.
OnResult(b, err, t) ==
    LET w == LastN(Append(b.window, err), CBWindowSize) IN
    IF b.halfOpenProbe
    THEN IF ~err
         THEN [b EXCEPT !.halfOpenProbe = FALSE, !.open = FALSE, !.window = <<>>]
         ELSE [b EXCEPT !.halfOpenProbe = FALSE, !.open = TRUE,
                        !.openedAt = t, !.window = w]
    ELSE IF Len(w) >= CBWindowSize /\ 2 * CountErrs(w) > Len(w)
         THEN [b EXCEPT !.open = TRUE, !.openedAt = t, !.window = w]
         ELSE [b EXCEPT !.window = w]

\* CircuitBreaker.StateValue: 0 = open, 1 = half-open, 2 = closed
StateValue(b) == IF b.open THEN (IF b.halfOpenProbe THEN 1 ELSE 0) ELSE 2

\* Stats.ErrorRate as the pair (errors, outcomes); the rate is errs/n, 0 when n = 0
ErrCount(outcomes) == Cardinality({i \in 1..Len(outcomes) : outcomes[i].Err})

\* a/b < c/d for rates given as pairs, an empty window counting as rate 0
RateLess(e1, n1, e2, n2) ==
    IF n1 = 0 THEN (n2 # 0 /\ e2 > 0)
    ELSE IF n2 = 0 THEN FALSE
    ELSE e1 * n2 < e2 * n1

RateEq(e1, n1, e2, n2) == ~RateLess(e1, n1, e2, n2) /\ ~RateLess(e2, n2, e1, n1)

\* ErrorRate() / sloTarget > k with sloTarget = 0.01 (policies.go line 37)
BurnAbove(outcomes, k) ==
    Len(outcomes) > 0 /\ SloTargetInv * ErrCount(outcomes) > k * Len(outcomes)

\* ------------------------------------------------------------- providers
\* The providers HandleInfer registers, in its order (part_004 lines 38-77)
AllProviders == <<"openai", "bedrock", "mock">>
ProviderNames == {"openai", "bedrock", "mock"}
Nil == "nil"

\* ROUTER_POLICY, the policy of a request that names none
DefaultPolicy == "cheapest"

\* OPENAI_MODEL, the model of a request that names none
OpenAIModel == "gpt-4o"

Models == {"", "gpt-4o", "gpt-4o-mini", "anthropic.claude-3-haiku"}
Policies == {"cheapest", "fastest_p95", "slo_burn_aware", "canary", "other", ""}
\* MOCK_COST_PER_1K_TOKENS_USD values tried, in 1/1000 USD
MockCosts == {2, 250, 3000}
\* rng.Float64() * 100, one value per interval the stages cut [0,1) into
Draws == {0, 1, 5, 25, 99}
Latencies == {1, 2}

\* ------------------------------------------------------------------ state
VARIABLES
    now,       \* the clock
    cb,        \* the provider's CircuitBreaker
    stats,     \* the provider's Stats.outcomes
    pc,        \* per caller: position inside Complete
    attempt,   \* per caller: Complete's attempt counter
    t0,        \* per caller: start time of the attempt in flight
    callErr,   \* per caller: whether the inner call returned an error
    lastErr,   \* per caller: whether lastErr is set
    ctxDone,   \* per caller: whether the caller's context is cancelled
    result,    \* per caller: what the last Complete returned
    probe,     \* per caller: the attempt in flight was admitted as the half-open probe
    owed,      \* attempts returned but not yet recorded, recorded but not yet reported
    registered,\* the providers list as handed to NewEngine (registration order)
    mockCost,  \* MockProvider.costPer1k, in 1/1000 USD
    provs,     \* Engine.provs
    canary,    \* Engine.canary
    pstats,    \* per provider name: its Stats.outcomes
    chosen,    \* what the last Choose returned
    obs,       \* outcomes recorded into provider Stats so far
    infer,     \* per request in HandleInfer: its position and locals
    served,    \* requests HandleInfer has taken so far
    defPol,    \* the registry's default policy (router.SetDefaultPolicy)
    configured,\* the window and burn multiplier handed to ConfigureCanary
    admin,     \* the admin handlers: requests taken, the last one and its answer
    sample     \* a Stats on its own: its outcomes, what was recorded, its last p95

rpVars == <<now, cb, stats, pc, attempt, t0, callErr, lastErr, ctxDone, result, probe, owed>>
engVars == <<registered, mockCost, provs, canary, pstats, chosen, obs>>
vars == <<now, cb, stats, pc, attempt, t0, callErr, lastErr, ctxDone, result, probe, owed,
          registered, mockCost, provs, canary, pstats, chosen, obs, infer, served,
          defPol, configured, admin, sample>>

RPInit ==
    /\ now = 0
    /\ cb = NewCircuitBreaker
    /\ stats = NewStats
    /\ pc = [t \in Threads |-> "idle"]
    /\ attempt = [t \in Threads |-> 0]
    /\ t0 = [t \in Threads |-> 0]
    /\ callErr = [t \in Threads |-> FALSE]
    /\ lastErr = [t \in Threads |-> FALSE]
    /\ ctxDone = [t \in Threads |-> FALSE]
    /\ result = [t \in Threads |-> "none"]
    /\ probe = [t \in Threads |-> FALSE]
    /\ owed = [stats |-> 0, statsErr |-> 0, cb |-> 0, cbErr |-> 0]

\* the engine with no provider registered
EngineIdle ==
    /\ registered = <<>>
    /\ mockCost = 2
    /\ provs = <<>>
    /\ canary = [candidate |-> "", stages |-> <<1, 5, 25>>, stageIdx |-> 0, calls |-> 0]
    /\ pstats = [n \in ProviderNames |-> NewStats]
    /\ chosen = Nil
    /\ obs = 0

\* no request inside HandleInfer
NoRequest == [pc |-> "idle", model |-> "", i |-> 0, j |-> 0, x |-> Nil, y |-> Nil,
              chosen |-> Nil, failed |-> FALSE, status |-> 0]

\* CANARY_STAGES, CANARY_WINDOW and CANARY_BURN_MULTIPLIER when the
\* environment sets none
ConfigDefault == [stages |-> <<1, 5, 25>>, window |-> 200, burnMultiplier |-> 2]

\* no admin request taken yet
NoAdmin == [n |-> 0, op |-> "none", arg |-> "", status |-> 0]

\* HandleInfer's setup: the registry holds cfg.DefaultPolicy, the engine was
\* configured from cfg, no request has arrived
HandlerIdle ==
    /\ infer = [t \in Threads |-> NoRequest]
    /\ served = 0
    /\ defPol = DefaultPolicy
    /\ configured = [window |-> ConfigDefault.window,
                     burnMultiplier |-> ConfigDefault.burnMultiplier]
    /\ admin = NoAdmin

\* a Stats nothing was recorded into and nothing was asked of
NoSample == [outcomes |-> NewStats, fed |-> <<>>, p95 |-> -1, windowSize |-> StatsWindow]

adminVars == <<defPol, configured, admin>>

hVars == <<infer, served, adminVars, sample>>

InitProvider == RPInit /\ EngineIdle /\ HandlerIdle /\ sample = NoSample

B2N(b) == IF b THEN 1 ELSE 0

\* time passes
Tick ==
    /\ now < MaxTime
    /\ now' = now + 1
    /\ UNCHANGED <<cb, stats, pc, attempt, t0, callErr, lastErr, ctxDone, result, probe, owed>>
    /\ UNCHANGED engVars
    /\ UNCHANGED hVars

\* Complete, lines 244-266: the breaker gate, then the first inner call is
\* issued.  c: the context is already cancelled when Complete is called.
Begin(t, c) ==
    /\ pc[t] = "idle"
    /\ LET a == Allow(cb, now) IN
       /\ cb' = a.cb
       /\ lastErr' = [lastErr EXCEPT ![t] = FALSE]
       /\ callErr' = [callErr EXCEPT ![t] = FALSE]
       /\ IF ~a.ok
          THEN /\ result' = [result EXCEPT ![t] = "circuit open"]
               /\ attempt' = [attempt EXCEPT ![t] = 0]
               /\ UNCHANGED <<pc, t0, probe, ctxDone>>
          ELSE /\ result' = [result EXCEPT ![t] = "none"]
               /\ attempt' = [attempt EXCEPT ![t] = 1]
               /\ t0' = [t0 EXCEPT ![t] = now]
               /\ pc' = [pc EXCEPT ![t] = "call"]
               /\ ctxDone' = [ctxDone EXCEPT ![t] = c]
               /\ probe' = [probe EXCEPT ![t] = cb.open]
    /\ UNCHANGED <<now, stats, owed>>
    /\ UNCHANGED engVars
    /\ UNCHANGED hVars

\* the caller cancels the context of a running Complete
Cancel(t) ==
    /\ pc[t] # "idle"
    /\ ~ctxDone[t]
    /\ ctxDone' = [ctxDone EXCEPT ![t] = TRUE]
    /\ UNCHANGED <<now, cb, stats, pc, attempt, t0, callErr, lastErr, result, probe, owed>>
    /\ UNCHANGED engVars
    /\ UNCHANGED hVars

\* rp.inner.Complete returns (line 266) and the latency is taken (line 268).
\* It cannot succeed once the scoped deadline has passed or the caller's
\* context is cancelled.
InnerReturn(t, err) ==
    /\ pc[t] = "call"
    /\ (~err => (now - t0[t] < Timeout /\ ~ctxDone[t]))
    /\ callErr' = [callErr EXCEPT ![t] = err]
    /\ t0' = [t0 EXCEPT ![t] = now - t0[t]]
    /\ pc' = [pc EXCEPT ![t] = "record"]
    /\ owed' = [owed EXCEPT !.stats = @ + 1, !.statsErr = @ + B2N(err)]
    /\ UNCHANGED <<now, cb, stats, attempt, lastErr, ctxDone, result, probe>>
    /\ UNCHANGED engVars
    /\ UNCHANGED hVars

\* the record step with only failed attempts recorded into Stats
RecordStepSkipsSuccess(t) ==
    /\ pc[t] = "record"
    /\ stats' = IF callErr[t] THEN StatsRecord(stats, t0[t], callErr[t]) ELSE stats
    /\ lastErr' = [lastErr EXCEPT ![t] = IF callErr[t] THEN TRUE ELSE @]
    /\ t0' = [t0 EXCEPT ![t] = 0]
    /\ pc' = [pc EXCEPT ![t] = "onresult"]
    /\ owed' = [owed EXCEPT !.stats = @ - 1, !.statsErr = @ - B2N(callErr[t]),
                            !.cb = @ + 1, !.cbErr = @ + B2N(callErr[t])]
    /\ UNCHANGED <<now, cb, attempt, callErr, ctxDone, result, probe>>
    /\ UNCHANGED engVars
    /\ UNCHANGED hVars

\* rp.stats.Record(lat, err), lines 271 and 277; t0 holds lat by now
RecordStep(t) ==
    /\ pc[t] = "record"
    /\ stats' = StatsRecord(stats, t0[t], callErr[t])
    /\ lastErr' = [lastErr EXCEPT ![t] = IF callErr[t] THEN TRUE ELSE @]
    /\ t0' = [t0 EXCEPT ![t] = 0]
    /\ pc' = [pc EXCEPT ![t] = "onresult"]
    /\ owed' = [owed EXCEPT !.stats = @ - 1, !.statsErr = @ - B2N(callErr[t]),
                            !.cb = @ + 1, !.cbErr = @ + B2N(callErr[t])]
    /\ UNCHANGED <<now, cb, attempt, callErr, ctxDone, result, probe>>
    /\ UNCHANGED engVars
    /\ UNCHANGED hVars

\* the report step with the retry loop left one attempt early
OnResultStepStopsEarly(t) ==
    /\ pc[t] = "onresult"
    /\ cb' = OnResult(cb, callErr[t], now)
    /\ probe' = [probe EXCEPT ![t] = FALSE]
    /\ owed' = [owed EXCEPT !.cb = @ - 1, !.cbErr = @ - B2N(callErr[t])]
    /\ IF ~callErr[t]
       THEN /\ pc' = [pc EXCEPT ![t] = "idle"]
            /\ result' = [result EXCEPT ![t] = "ok"]
            /\ ctxDone' = [ctxDone EXCEPT ![t] = FALSE]
       ELSE IF attempt[t] >= MaxRetries
            THEN /\ pc' = [pc EXCEPT ![t] = "idle"]
                 /\ result' = [result EXCEPT ![t] = "failure"]
                 /\ ctxDone' = [ctxDone EXCEPT ![t] = FALSE]
            ELSE /\ pc' = [pc EXCEPT ![t] = "backoff"]
                 /\ UNCHANGED <<result, ctxDone>>
    /\ UNCHANGED <<now, stats, attempt, t0, callErr, lastErr>>
    /\ UNCHANGED engVars
    /\ UNCHANGED hVars

\* rp.cb.OnResult(err) and what follows it: return on success (line 273),
\* return the last failure after the last retry (lines 280-293), or sleep
OnResultStep(t) ==
    /\ pc[t] = "onresult"
    /\ cb' = OnResult(cb, callErr[t], now)
    /\ probe' = [probe EXCEPT ![t] = FALSE]
    /\ owed' = [owed EXCEPT !.cb = @ - 1, !.cbErr = @ - B2N(callErr[t])]
    /\ IF ~callErr[t]
       THEN /\ pc' = [pc EXCEPT ![t] = "idle"]
            /\ result' = [result EXCEPT ![t] = "ok"]
            /\ ctxDone' = [ctxDone EXCEPT ![t] = FALSE]
       ELSE IF attempt[t] > MaxRetries
            THEN /\ pc' = [pc EXCEPT ![t] = "idle"]
                 /\ result' = [result EXCEPT ![t] = "failure"]
                 /\ ctxDone' = [ctxDone EXCEPT ![t] = FALSE]
            ELSE /\ pc' = [pc EXCEPT ![t] = "backoff"]
                 /\ UNCHANGED <<result, ctxDone>>
    /\ UNCHANGED <<now, stats, attempt, t0, callErr, lastErr>>
    /\ UNCHANGED engVars
    /\ UNCHANGED hVars

\* time.Sleep returns (line 288) and the loop issues the next inner call
\* (lines 259-266).  The sleep ignores the context; its length is a jittered
\* configuration value, any length here.
BackoffDone(t) ==
    /\ pc[t] = "backoff"
    /\ attempt' = [attempt EXCEPT ![t] = @ + 1]
    /\ t0' = [t0 EXCEPT ![t] = now]
    /\ pc' = [pc EXCEPT ![t] = "call"]
    /\ UNCHANGED <<now, cb, stats, callErr, lastErr, ctxDone, result, probe, owed>>
    /\ UNCHANGED engVars
    /\ UNCHANGED hVars

NextProvider ==
    \/ Tick
    \/ \E t \in Threads, c \in BOOLEAN : Begin(t, c)
    \/ \E t \in Threads : Cancel(t)
    \/ \E t \in Threads, err \in BOOLEAN : InnerReturn(t, err)
    \/ \E t \in Threads : RecordStep(t)
    \/ \E t \in Threads : OnResultStep(t)
    \/ \E t \in Threads : BackoffDone(t)

SpecProvider == InitProvider /\ [][NextProvider]_vars

\* Time without an end.  The gate and the deadline read the clock only through
\* time.Since(cb.openedAt) >= cb.cooldown (line 154) and the time left to a
\* running call's deadline (line 264), so once now has reached MaxTime a
\* further unit of time is the same clock value with openedAt and the start
\* of every running call one unit further back, as far back as the
\* comparisons can tell.
Elapse ==
    /\ IF now < MaxTime
       THEN /\ now' = now + 1
            /\ UNCHANGED <<cb, t0>>
       ELSE /\ now' = now
            /\ cb' = [cb EXCEPT !.openedAt = IF @ > now - CBCooldown THEN @ - 1 ELSE @]
            /\ t0' = [t \in Threads |->
                         IF pc[t] = "call" /\ t0[t] > now - Timeout
                         THEN t0[t] - 1 ELSE t0[t]]
    /\ UNCHANGED <<stats, pc, attempt, callErr, lastErr, ctxDone, result, probe, owed>>
    /\ UNCHANGED engVars
    /\ UNCHANGED hVars

\* A context cancelled by the caller does nothing but make the inner call
\* fail, which an inner call may do at any time: callers that cancel are left
\* out here.
NextProviderLive ==
    \/ Elapse
    \/ \E t \in Threads : Begin(t, FALSE)
    \/ \E t \in Threads, err \in BOOLEAN : InnerReturn(t, err)
    \/ \E t \in Threads : RecordStep(t)
    \/ \E t \in Threads : OnResultStep(t)
    \/ \E t \in Threads : BackoffDone(t)

\* Time keeps advancing, Complete keeps being called, every inner call
\* returns, and a goroutine that is not blocked goes on: the two calls after
\* the inner call's return take the mutexes of Stats and of the breaker, held
\* for a bounded time each, and time.Sleep returns.
FairProvider ==
    /\ WF_vars(Elapse)
    /\ WF_vars(\E t \in Threads : Begin(t, FALSE))
    /\ \A t \in Threads :
          /\ WF_vars(\E err \in BOOLEAN : InnerReturn(t, err))
          /\ WF_vars(RecordStep(t))
          /\ WF_vars(OnResultStep(t))
          /\ WF_vars(BackoffDone(t))

SpecProviderLive == InitProvider /\ [][NextProviderLive]_vars /\ FairProvider

\* ----------------------------------------------------------------- Engine
\* CostPer1kTokensUSD in 1/1000 USD: OpenAIProvider (provider.go lines
\* 320-335), BedrockProvider (bedrock.go lines 32-46), MockProvider (line 99)
CostPer1kTokensUSD(n, model) ==
    IF n = "openai"
    THEN (IF model = "gpt-4o" THEN 5000
          ELSE IF model = "gpt-4o-mini" THEN 600
          ELSE IF model = "gpt-4.1" THEN 10000
          ELSE 10000)
    ELSE IF n = "bedrock"
    THEN (IF model = "anthropic.claude-3-sonnet" THEN 3000
          ELSE IF model = "anthropic.claude-3-haiku" THEN 250
          ELSE 3000)
    ELSE mockCost

Swap(s, i, j) == [s EXCEPT ![i] = s[j], ![j] = s[i]]

\* sort.Slice on fewer than 12 elements is an insertion sort: element i moves
\* left while it is cheaper than its left neighbour
RECURSIVE SinkLeft(_, _, _)
SinkLeft(s, j, model) ==
    IF j > 1 /\ CostPer1kTokensUSD(s[j], model) < CostPer1kTokensUSD(s[j - 1], model)
    THEN SinkLeft(Swap(s, j, j - 1), j - 1, model)
    ELSE s

RECURSIVE InsertionPass(_, _, _)
InsertionPass(s, i, model) ==
    IF i > Len(s) THEN s ELSE InsertionPass(SinkLeft(s, i, model), i + 1, model)

SortByCost(s, model) == InsertionPass(s, 2, model)

\* Engine.cheapest: the first provider of ps that is strictly cheaper than
\* all before it
RECURSIVE CheapestFrom(_, _, _, _)
CheapestFrom(ps, i, best, model) ==
    IF i > Len(ps) THEN best
    ELSE CheapestFrom(ps, i + 1,
                      IF CostPer1kTokensUSD(ps[i], model) < CostPer1kTokensUSD(best, model)
                      THEN ps[i] ELSE best,
                      model)

cheapest(ps, model) == IF Len(ps) = 0 THEN Nil ELSE CheapestFrom(ps, 2, ps[1], model)

\* Engine.cheapestPair: sorts the slice it got from providers(), which is
\* e.provs itself, and returns its first two elements
cheapestPair(ps, model) ==
    IF Len(ps) < 2 THEN [ps |-> ps, primary |-> Nil, candidate |-> Nil]
    ELSE LET sorted == SortByCost(ps, model) IN
         [ps |-> sorted, primary |-> sorted[1], candidate |-> sorted[2]]

\* sort.Ints
RECURSIVE InsertInt(_, _)
InsertInt(s, x) ==
    IF Len(s) = 0 THEN <<x>>
    ELSE IF x < s[1] THEN <<x>> \o s
    ELSE <<s[1]>> \o InsertInt(Tail(s), x)

RECURSIVE SortInts(_)
SortInts(s) == IF Len(s) = 0 THEN <<>> ELSE InsertInt(SortInts(Tail(s)), s[1])

RECURSIVE SuccessLatencies(_)
SuccessLatencies(outcomes) ==
    IF Len(outcomes) = 0 THEN <<>>
    ELSE (IF outcomes[1].Err THEN <<>> ELSE <<outcomes[1].LatencyMs>>)
         \o SuccessLatencies(Tail(outcomes))

\* Stats.P95LatencyMs taking the index int(0.95 * n)
P95LatencyMsFloorIndex(outcomes) ==
    LET vals == SortInts(SuccessLatencies(outcomes))
        n == Len(vals)
        raw == (95 * n) \div 100
        idx == IF raw < 0 THEN 0 ELSE IF raw >= n THEN n - 1 ELSE raw
    IN IF n = 0 THEN 0 ELSE vals[idx + 1]

\* Stats.P95LatencyMs; ceil(0.95 * n) is (95 n + 99) div 100
P95LatencyMs(outcomes) ==
    LET vals == SortInts(SuccessLatencies(outcomes))
        n == Len(vals)
        raw == ((95 * n + 99) \div 100) - 1
        idx == IF raw < 0 THEN 0 ELSE IF raw >= n THEN n - 1 ELSE raw
    IN IF n = 0 THEN 0 ELSE vals[idx + 1]

\* Engine.fastestP95
RECURSIVE FastestFrom(_, _, _)
FastestFrom(ps, i, best) ==
    IF i > Len(ps) THEN best
    ELSE LET v == P95LatencyMs(pstats[ps[i]])
             bestP == P95LatencyMs(pstats[best])
         IN FastestFrom(ps, i + 1,
                        IF v > 0 /\ (bestP = 0 \/ v < bestP) THEN ps[i] ELSE best)

fastestP95(ps) ==
    IF Len(ps) = 0 THEN Nil
    ELSE LET best == FastestFrom(ps, 2, ps[1]) IN
         IF P95LatencyMs(pstats[best]) = 0 THEN cheapest(ps, "") ELSE best

\* Engine.healthyAlternative
RECURSIVE HealthyFrom(_, _, _, _)
HealthyFrom(ps, i, best, model) ==
    IF i > Len(ps) THEN best
    ELSE LET e1 == ErrCount(pstats[ps[i]])
             n1 == Len(pstats[ps[i]])
             e2 == ErrCount(pstats[best])
             n2 == Len(pstats[best])
         IN HealthyFrom(ps, i + 1,
                IF RateLess(e1, n1, e2, n2)
                   \/ (RateEq(e1, n1, e2, n2)
                       /\ CostPer1kTokensUSD(ps[i], model) < CostPer1kTokensUSD(best, model))
                THEN ps[i] ELSE best,
                model)

healthyAlternative(ps, model) ==
    IF Len(ps) = 0 THEN Nil ELSE HealthyFrom(ps, 2, ps[1], model)

\* slo_burn_aware stays with the cheapest provider whatever its error rate
ChooseResultNeverSwitches(policy, model, u) ==
    IF policy = "cheapest" THEN [ret |-> cheapest(provs, model), ps |-> provs]
    ELSE IF policy = "fastest_p95" THEN [ret |-> fastestP95(provs), ps |-> provs]
    ELSE IF policy = "slo_burn_aware"
    THEN LET alt == healthyAlternative(provs, model)
             c == cheapest(provs, model)
         IN [ret |-> IF c = Nil THEN alt ELSE c,
             ps |-> provs]
    ELSE IF policy = "canary"
    THEN LET pair == cheapestPair(provs, model) IN
         [ret |-> IF pair.primary = Nil \/ pair.candidate = Nil THEN pair.primary
                  ELSE IF u < canary.stages[canary.stageIdx + 1] THEN pair.candidate
                  ELSE pair.primary,
          ps |-> pair.ps]
    ELSE [ret |-> cheapest(provs, model), ps |-> provs]

\* the default branch of the switch falls to fastestP95
ChooseResultUnknownIsFastest(policy, model, u) ==
    IF policy = "cheapest" THEN [ret |-> cheapest(provs, model), ps |-> provs]
    ELSE IF policy = "fastest_p95" THEN [ret |-> fastestP95(provs), ps |-> provs]
    ELSE IF policy = "slo_burn_aware"
    THEN LET alt == healthyAlternative(provs, model)
             c == cheapest(provs, model)
         IN [ret |-> IF c = Nil THEN alt
                     ELSE IF BurnAbove(pstats[c], 1) THEN alt ELSE c,
             ps |-> provs]
    ELSE IF policy = "canary"
    THEN LET pair == cheapestPair(provs, model) IN
         [ret |-> IF pair.primary = Nil \/ pair.candidate = Nil THEN pair.primary
                  ELSE IF u < canary.stages[canary.stageIdx + 1] THEN pair.candidate
                  ELSE pair.primary,
          ps |-> pair.ps]
    ELSE [ret |-> fastestP95(provs), ps |-> provs]

\* Engine.Choose with the draw u = rng.Float64() * 100: the provider returned
\* and the e.provs it leaves behind
ChooseResult(policy, model, u) ==
    IF policy = "cheapest" THEN [ret |-> cheapest(provs, model), ps |-> provs]
    ELSE IF policy = "fastest_p95" THEN [ret |-> fastestP95(provs), ps |-> provs]
    ELSE IF policy = "slo_burn_aware"
    THEN LET alt == healthyAlternative(provs, model)
             c == cheapest(provs, model)
         IN [ret |-> IF c = Nil THEN alt
                     ELSE IF BurnAbove(pstats[c], 1) THEN alt ELSE c,
             ps |-> provs]
    ELSE IF policy = "canary"
    THEN LET pair == cheapestPair(provs, model) IN
         [ret |-> IF pair.primary = Nil \/ pair.candidate = Nil THEN pair.primary
                  ELSE IF u < canary.stages[canary.stageIdx + 1] THEN pair.candidate
                  ELSE pair.primary,
          ps |-> pair.ps]
    ELSE [ret |-> cheapest(provs, model), ps |-> provs]

\* NewEngine: the list is stored, and with two or more providers the
\* candidate is the second of cheapestPair("")
NewEngine(providersList) ==
    LET pair == cheapestPair(providersList, "") IN
    /\ provs = pair.ps
    /\ canary = [candidate |-> IF Len(providersList) > 1 THEN pair.candidate ELSE "",
                 stages |-> <<1, 5, 25>>, stageIdx |-> 0, calls |-> 0]

\* the provider lists HandleInfer can build: any of the three, in its order
ProviderLists ==
    {SelectSeq(AllProviders, LAMBDA n : n \in S) : S \in SUBSET ProviderNames}

InitEngine ==
    /\ RPInit
    /\ registered \in ProviderLists
    /\ mockCost \in MockCosts
    /\ (\A i \in 1..Len(registered) : registered[i] # "mock") => mockCost = 2
    /\ NewEngine(registered)
    /\ pstats = [n \in ProviderNames |-> NewStats]
    /\ chosen = Nil
    /\ obs = 0
    /\ HandlerIdle
    /\ sample = NoSample

Choose(policy, model, u) ==
    /\ LET r == ChooseResult(policy, model, u) IN
       /\ chosen' = r.ret
       /\ provs' = r.ps
    /\ UNCHANGED <<registered, mockCost, canary, pstats, obs>>
    /\ UNCHANGED rpVars
    /\ UNCHANGED hVars

\* RecordResult's loop over e.provs looking for the provider named
\* providerName: whether it finds it.  The loop runs under e.mu, but
\* cheapestPair's sort.Slice swaps elements of e.provs with no lock held: a
\* loop that passes position j-1 before a swap(j, j-1) writes and position j
\* after it never sees the element that moved down.
CandidateLookup(providerName) ==
    {\E i \in 1..Len(provs) : provs[i] = providerName}
        \cup (IF \E t \in Threads : infer[t].pc = "swapWrite" /\ infer[t].y = providerName
              THEN {FALSE} ELSE {})

\* RecordResult stopping its automatic advance one stage short of the last
CanaryAfterRecordStopsEarly(providerName, found) ==
    IF providerName = canary.candidate
    THEN LET calls == canary.calls + 1 IN
         IF calls % CanaryWindow = 0
         THEN IF found /\ BurnAbove(pstats[providerName], CanaryBurn)
              THEN [canary EXCEPT !.calls = calls, !.stageIdx = 0]
              ELSE IF canary.stageIdx + 2 < Len(canary.stages)
                   THEN [canary EXCEPT !.calls = calls, !.stageIdx = @ + 1]
                   ELSE [canary EXCEPT !.calls = calls]
         ELSE [canary EXCEPT !.calls = calls]
    ELSE canary

\* RecordResult advancing at every healthy boundary, the last stage included
CanaryAfterRecordAdvancesPastLast(providerName, found) ==
    IF providerName = canary.candidate
    THEN LET calls == canary.calls + 1 IN
         IF calls % CanaryWindow = 0
         THEN IF found /\ BurnAbove(pstats[providerName], CanaryBurn)
              THEN [canary EXCEPT !.calls = calls, !.stageIdx = 0]
              ELSE [canary EXCEPT !.calls = calls, !.stageIdx = @ + 1]
         ELSE [canary EXCEPT !.calls = calls]
    ELSE canary

\* RecordResult counting the calls of every provider, not the candidate's only
CanaryAfterRecordCountsAll(providerName, found) ==
    LET calls == canary.calls + 1 IN
    IF calls % CanaryWindow = 0
    THEN IF found /\ BurnAbove(pstats[providerName], CanaryBurn)
         THEN [canary EXCEPT !.calls = calls, !.stageIdx = 0]
         ELSE IF canary.stageIdx + 1 < Len(canary.stages)
              THEN [canary EXCEPT !.calls = calls, !.stageIdx = @ + 1]
              ELSE [canary EXCEPT !.calls = calls]
    ELSE [canary EXCEPT !.calls = calls]

\* Engine.RecordResult: the canary state it leaves when its lookup of the
\* candidate gave found.  The failed flag is not read.
CanaryAfterRecord(providerName, found) ==
    IF providerName = canary.candidate
    THEN LET calls == canary.calls + 1 IN
         IF calls % CanaryWindow = 0
         THEN IF found /\ BurnAbove(pstats[providerName], CanaryBurn)
              THEN [canary EXCEPT !.calls = calls, !.stageIdx = 0]
              ELSE IF canary.stageIdx + 1 < Len(canary.stages)
                   THEN [canary EXCEPT !.calls = calls, !.stageIdx = @ + 1]
                   ELSE [canary EXCEPT !.calls = calls]
         ELSE [canary EXCEPT !.calls = calls]
    ELSE canary

\* RecordResult counting only the calls reported as failed
RecordResultCountsFailedOnly(providerName, failed) ==
    /\ \E found \in CandidateLookup(providerName) :
          canary' = IF failed THEN CanaryAfterRecord(providerName, found) ELSE canary
    /\ UNCHANGED <<registered, mockCost, provs, pstats, chosen, obs>>
    /\ UNCHANGED rpVars
    /\ UNCHANGED hVars

RecordResult(providerName, failed) ==
    /\ \E found \in CandidateLookup(providerName) :
          canary' = CanaryAfterRecord(providerName, found)
    /\ UNCHANGED <<registered, mockCost, provs, pstats, chosen, obs>>
    /\ UNCHANGED rpVars
    /\ UNCHANGED hVars

\* an attempt on provider n ends and ResilientProvider.Complete records it
\* into that provider's Stats (provider.go lines 271 and 277)
ProviderOutcome(n, latencyMs, err) ==
    /\ \E i \in 1..Len(provs) : provs[i] = n
    /\ obs < MaxObs
    /\ pstats' = [pstats EXCEPT ![n] = StatsRecord(@, latencyMs, err)]
    /\ obs' = obs + 1
    /\ UNCHANGED <<registered, mockCost, provs, canary, chosen>>
    /\ UNCHANGED rpVars
    /\ UNCHANGED hVars

NextEngine ==
    \/ \E policy \in Policies, model \in Models :
          \E u \in (IF policy = "canary" THEN Draws ELSE {0}) : Choose(policy, model, u)
    \/ \E n \in ProviderNames, failed \in BOOLEAN :
          canary.calls < MaxCanaryCalls /\ RecordResult(n, failed)
    \/ \E n \in ProviderNames, err \in BOOLEAN :
          \E l \in (IF err THEN {1} ELSE Latencies) : ProviderOutcome(n, l, err)

SpecEngine == InitEngine /\ [][NextEngine]_vars

\* ------------------------------------------------------------ HandleInfer
\* Concurrent requests in HandleInfer (part_004 lines 88-140).  Choose takes
\* no lock around cheapestPair's sort.Slice, so the sort of one request runs
\* step by step against the shared e.provs: a comparison, the two reads of a
\* swap and its two writes are separate steps.

\* the nil check left out: Complete is called on whatever Choose returned
AfterChooseSkipsNilCheck(t, p) ==
    infer' = [infer EXCEPT ![t] = [NoRequest EXCEPT !.pc = "complete", !.chosen = p]]

\* Choose returned p to request t: nil is answered 503, otherwise Complete is
\* called next
AfterChoose(t, p) ==
    IF p = Nil
    THEN infer' = [infer EXCEPT ![t] = [NoRequest EXCEPT !.status = 503]]
    ELSE infer' = [infer EXCEPT ![t] = [NoRequest EXCEPT !.pc = "complete", !.chosen = p]]

\* a request that names no policy always taking cfg.DefaultPolicy
ResolvePolicyIgnoresRegistry(policy) ==
    IF policy = "" THEN DefaultPolicy ELSE policy

\* a request that names a policy keeps it; one that names none takes the
\* registry's default, or cfg.DefaultPolicy while the registry holds none
ResolvePolicy(policy) ==
    IF policy = ""
    THEN IF defPol # "" THEN defPol ELSE DefaultPolicy
    ELSE policy

\* a request arrives and calls Choose; the canary policy over two or more
\* providers enters sort.Slice and draws after it, every other path returns
\* at once
InferChoose(t, policy, model, u) ==
    LET m == IF model = "" THEN OpenAIModel ELSE model
        pol == ResolvePolicy(policy)
    IN
    /\ infer[t].pc = "idle"
    /\ served < MaxRequests
    /\ served' = served + 1
    /\ UNCHANGED <<adminVars, sample>>
    /\ IF pol = "canary" /\ Len(provs) >= 2
       THEN infer' = [infer EXCEPT ![t] = [NoRequest EXCEPT !.pc = "less", !.model = m,
                                                            !.i = 2, !.j = 2]]
       ELSE AfterChoose(t, ChooseResult(pol, m, u).ret)
    /\ UNCHANGED engVars
    /\ UNCHANGED rpVars

\* insertion sort, the loop test j > a && less(j, j-1); when the outer loop
\* ends cheapestPair returns ps[0], ps[1] and Choose draws u = rng.Float64() * 100
SortLess(t, u) ==
    LET r == infer[t] IN
    /\ r.pc = "less"
    /\ IF r.j > 1 /\ CostPer1kTokensUSD(provs[r.j], r.model)
                         < CostPer1kTokensUSD(provs[r.j - 1], r.model)
       THEN infer' = [infer EXCEPT ![t].pc = "swapRead"]
       ELSE IF r.i < Len(provs)
            THEN infer' = [infer EXCEPT ![t].i = r.i + 1, ![t].j = r.i + 1]
            ELSE AfterChoose(t, IF u < canary.stages[canary.stageIdx + 1]
                                THEN provs[2] ELSE provs[1])
    /\ UNCHANGED engVars
    /\ UNCHANGED rpVars
    /\ UNCHANGED <<served, adminVars, sample>>

\* swap(j, j-1): ps[j], ps[j-1] = ps[j-1], ps[j], the reads
SortSwapRead(t) ==
    LET r == infer[t] IN
    /\ r.pc = "swapRead"
    /\ infer' = [infer EXCEPT ![t].pc = "swapWrite", ![t].x = provs[r.j - 1],
                              ![t].y = provs[r.j]]
    /\ UNCHANGED engVars
    /\ UNCHANGED rpVars
    /\ UNCHANGED <<served, adminVars, sample>>

\* swap(j, j-1), the writes
SortSwapWrite(t) ==
    LET r == infer[t] IN
    /\ r.pc = "swapWrite"
    /\ provs' = [provs EXCEPT ![r.j] = r.x, ![r.j - 1] = r.y]
    /\ infer' = [infer EXCEPT ![t].pc = "less", ![t].j = r.j - 1, ![t].x = Nil, ![t].y = Nil]
    /\ UNCHANGED <<registered, mockCost, canary, pstats, chosen, obs>>
    /\ UNCHANGED rpVars
    /\ UNCHANGED <<served, adminVars, sample>>

\* chosen.Complete returns: rejected by the breaker (nothing recorded), or
\* after an attempt that was recorded into the provider's Stats
InferComplete(t, rejected, latencyMs, err) ==
    LET r == infer[t] IN
    /\ r.pc = "complete"
    /\ IF rejected
       THEN /\ err
            /\ infer' = [infer EXCEPT ![t].pc = "record", ![t].failed = TRUE]
            /\ UNCHANGED <<pstats, obs>>
       ELSE /\ pstats' = [pstats EXCEPT ![r.chosen] = StatsRecord(@, latencyMs, err)]
            /\ obs' = obs + 1
            /\ infer' = [infer EXCEPT ![t].pc = "record", ![t].failed = err]
    /\ UNCHANGED <<registered, mockCost, provs, canary, chosen>>
    /\ UNCHANGED rpVars
    /\ UNCHANGED <<served, adminVars, sample>>

\* the handler answering a failed call without telling the engine
InferRecordSkipsFailed(t) ==
    LET r == infer[t] IN
    /\ r.pc = "record"
    /\ IF r.failed
       THEN canary' = canary
       ELSE \E found \in CandidateLookup(r.chosen) :
               canary' = CanaryAfterRecord(r.chosen, found)
    /\ infer' = [infer EXCEPT ![t] = [NoRequest EXCEPT !.status = IF r.failed THEN 502 ELSE 200]]
    /\ UNCHANGED <<registered, mockCost, provs, pstats, chosen, obs>>
    /\ UNCHANGED rpVars
    /\ UNCHANGED <<served, adminVars, sample>>

\* eng.RecordResult(chosen.Name(), failed), then the response
InferRecord(t) ==
    LET r == infer[t] IN
    /\ r.pc = "record"
    /\ \E found \in CandidateLookup(r.chosen) :
          canary' = CanaryAfterRecord(r.chosen, found)
    /\ infer' = [infer EXCEPT ![t] = [NoRequest EXCEPT !.status = IF r.failed THEN 502 ELSE 200]]
    /\ UNCHANGED <<registered, mockCost, provs, pstats, chosen, obs>>
    /\ UNCHANGED rpVars
    /\ UNCHANGED <<served, adminVars, sample>>

NextInfer ==
    \/ \E t \in Threads, policy \in Policies, model \in Models :
          \E u \in (IF policy = "canary" THEN Draws ELSE {0}) : InferChoose(t, policy, model, u)
    \/ \E t \in Threads, u \in Draws : SortLess(t, u)
    \/ \E t \in Threads : SortSwapRead(t)
    \/ \E t \in Threads : SortSwapWrite(t)
    \/ \E t \in Threads, err \in BOOLEAN :
          \E rejected \in (IF err THEN BOOLEAN ELSE {FALSE}) : InferComplete(t, rejected, 1, err)
    \/ \E t \in Threads : InferRecord(t)

SpecInfer == InitEngine /\ [][NextInfer]_vars

\* ---------------------------------------------------------- canary windows
\* The canary counter over whole evaluation windows: RecordResult calls
\* naming any provider, outcomes of the candidate's attempts, and one
\* request with the canary policy, rejected by the breaker, whose Choose
\* sorts e.provs meanwhile.
InitCanary == InitEngine /\ registered = <<"openai", "bedrock">>

NextCanary ==
    \/ \E n \in ProviderNames, failed \in BOOLEAN :
          canary.calls < MaxWindows * CanaryWindow /\ RecordResult(n, failed)
    \/ \E err \in BOOLEAN : ProviderOutcome(canary.candidate, 1, err)
    \/ \E model \in Models : served = 0 /\ InferChoose(1, "canary", model, 0)
    \/ \E u \in Draws : SortLess(1, u)
    \/ SortSwapRead(1)
    \/ SortSwapWrite(1)
    \/ InferComplete(1, TRUE, 1, TRUE)
    \/ canary.calls < MaxWindows * CanaryWindow /\ InferRecord(1)

SpecCanary == InitCanary /\ [][NextCanary]_vars

\* The second phase of TestCanaryRolloutAndRollback: every call the engine
\* is told about is a failed call of the candidate, RecordResult(candidate,
\* true), while the candidate's Stats take whatever its attempts record.
NextFailedCalls ==
    \/ canary.calls < MaxWindows * CanaryWindow /\ RecordResult(canary.candidate, TRUE)
    \/ \E err \in BOOLEAN : ProviderOutcome(canary.candidate, 1, err)

SpecFailedCalls == InitCanary /\ [][NextFailedCalls]_vars

\* ------------------------------------------------------ canary administration
\* The Engine's administrative methods and accessors are called by the admin
\* handlers and by HandleInfer's setup; their bodies are not part of
\* policies.go and follow the controller's specification (section 4.F).

\* Engine.CanaryCandidateProvider
CanaryCandidateProvider == canary.candidate

\* Engine.CanaryStageIndex
CanaryStageIndex == canary.stageIdx

\* Engine.CanaryPercent: the percentage of the current stage
CanaryPercent == canary.stages[canary.stageIdx + 1]

\* Engine.CanaryAdvance: one stage up, never beyond the last
CanaryAdvance ==
    [canary EXCEPT !.stageIdx = IF @ + 1 < Len(canary.stages)
                                 THEN @ + 1 ELSE Len(canary.stages) - 1]

\* Engine.CanaryRollback: back to the first stage
CanaryRollback == [canary EXCEPT !.stageIdx = 0]

\* the configurations the loader can hand to ConfigureCanary: at least one
\* stage, a positive window, a positive burn multiplier
CanaryConfigs ==
    {ConfigDefault,
     [stages |-> <<10>>, window |-> 200, burnMultiplier |-> 60],
     [stages |-> <<5, 50>>, window |-> 100, burnMultiplier |-> 2]}

\* Engine.ConfigureCanary: replaces stages, window and burn multiplier and
\* clamps stageIdx into the new stages
ConfigureCanary(cfg) ==
    /\ canary' = [canary EXCEPT !.stages = cfg.stages,
                                !.stageIdx = IF @ < Len(cfg.stages)
                                             THEN @ ELSE Len(cfg.stages) - 1]
    /\ configured' = [window |-> cfg.window, burnMultiplier |-> cfg.burnMultiplier]
    /\ UNCHANGED <<registered, mockCost, provs, pstats, chosen, obs>>
    /\ UNCHANGED rpVars
    /\ UNCHANGED <<infer, served, defPol, admin, sample>>

\* the bodies sent to /v1/admin/canary/advance: undecodable, {"force": true},
\* {"force": false}
AdvanceBodies == {"invalid", "force", "guarded"}

\* the guardrail's SLO target (0.01, as its inverse) and burn limit (2.0)
GuardrailSloInv == 100
GuardrailBurn == 2

\* HandleCanaryAdvance's answer: 400 for an undecodable body, 412 when the
\* unforced guardrail finds the candidate among the registry's providers with
\* ErrorRate()/0.01 > 2.0, 204 otherwise
AdvanceStatus(body, found) ==
    IF body = "invalid"
    THEN 400
    ELSE IF /\ body = "guarded"
            /\ CanaryCandidateProvider # ""
            /\ found
            /\ GuardrailSloInv * ErrCount(pstats[CanaryCandidateProvider])
                  > GuardrailBurn * Len(pstats[CanaryCandidateProvider])
         THEN 412
         ELSE 204

\* the advance handler going back to the first stage from the last one
HandleCanaryAdvanceWrapsAround(body) ==
    /\ admin.n < MaxAdmin
    /\ \E found \in CandidateLookup(CanaryCandidateProvider) :
          LET status == AdvanceStatus(body, found) IN
          /\ canary' = IF status = 204
                        THEN [canary EXCEPT !.stageIdx = (@ + 1) % Len(canary.stages)]
                        ELSE canary
          /\ admin' = [n |-> admin.n + 1, op |-> "advance", arg |-> body, status |-> status]
    /\ UNCHANGED <<registered, mockCost, provs, pstats, chosen, obs>>
    /\ UNCHANGED rpVars
    /\ UNCHANGED <<infer, served, defPol, configured, sample>>

\* POST /v1/admin/canary/advance
HandleCanaryAdvance(body) ==
    /\ admin.n < MaxAdmin
    /\ \E found \in CandidateLookup(CanaryCandidateProvider) :
          LET status == AdvanceStatus(body, found) IN
          /\ canary' = IF status = 204 THEN CanaryAdvance ELSE canary
          /\ admin' = [n |-> admin.n + 1, op |-> "advance", arg |-> body, status |-> status]
    /\ UNCHANGED <<registered, mockCost, provs, pstats, chosen, obs>>
    /\ UNCHANGED rpVars
    /\ UNCHANGED <<infer, served, defPol, configured, sample>>

\* the rollback handler going one stage down
HandleCanaryRollbackOneStageDown ==
    /\ admin.n < MaxAdmin
    /\ canary' = [canary EXCEPT !.stageIdx = IF @ > 0 THEN @ - 1 ELSE 0]
    /\ admin' = [n |-> admin.n + 1, op |-> "rollback", arg |-> "", status |-> 204]
    /\ UNCHANGED <<registered, mockCost, provs, pstats, chosen, obs>>
    /\ UNCHANGED rpVars
    /\ UNCHANGED <<infer, served, defPol, configured, sample>>

\* POST /v1/admin/canary/rollback
HandleCanaryRollback ==
    /\ admin.n < MaxAdmin
    /\ canary' = CanaryRollback
    /\ admin' = [n |-> admin.n + 1, op |-> "rollback", arg |-> "", status |-> 204]
    /\ UNCHANGED <<registered, mockCost, provs, pstats, chosen, obs>>
    /\ UNCHANGED rpVars
    /\ UNCHANGED <<infer, served, defPol, configured, sample>>

\* The canary controller under administration: admin requests, the engine
\* reconfigured, candidate calls reported and recorded, canary requests chosen.
NextAdmin ==
    \/ \E body \in AdvanceBodies : HandleCanaryAdvance(body)
    \/ HandleCanaryRollback
    \/ \E cfg \in CanaryConfigs : ConfigureCanary(cfg)
    \/ \E failed \in BOOLEAN :
          canary.calls < CanaryWindow /\ RecordResult(canary.candidate, failed)
    \/ \E err \in BOOLEAN : ProviderOutcome(canary.candidate, 1, err)
    \/ \E u \in Draws : Choose("canary", OpenAIModel, u)

SpecAdmin == InitCanary /\ [][NextAdmin]_vars

\* ------------------------------------------------------------ default policy
\* the policy names HandlePolicyUpdate accepts
ValidPolicies == {"cheapest", "fastest_p95", "slo_burn_aware", "canary"}

\* a body json.Decode fails on
Undecodable == "invalid json"

\* the bodies sent to /v1/admin/policy: undecodable, or {"default_policy": name}
PolicyBodies == {Undecodable} \cup Policies

\* HandlePolicyUpdate's answer
PolicyStatus(body) ==
    IF body = Undecodable
    THEN 400
    ELSE IF body \notin ValidPolicies THEN 400 ELSE 204

\* POST /v1/admin/policy
HandlePolicyUpdate(body) ==
    /\ admin.n < MaxAdmin
    /\ defPol' = IF PolicyStatus(body) = 204 THEN body ELSE defPol
    /\ admin' = [n |-> admin.n + 1, op |-> "policy", arg |-> body, status |-> PolicyStatus(body)]
    /\ UNCHANGED engVars
    /\ UNCHANGED rpVars
    /\ UNCHANGED <<infer, served, configured, sample>>

\* Requests that name no policy while the default policy is administered.
NextPolicy ==
    \/ \E body \in PolicyBodies : HandlePolicyUpdate(body)
    \/ \E model \in Models, u \in Draws : InferChoose(1, "", model, u)
    \/ \E u \in Draws : SortLess(1, u)
    \/ SortSwapRead(1)
    \/ SortSwapWrite(1)
    \/ \E err \in BOOLEAN : InferComplete(1, FALSE, 1, err)
    \/ InferRecord(1)

SpecPolicy == InitEngine /\ [][NextPolicy]_vars

\* ------------------------------------------------------------ Stats alone
\* One Stats, by itself: outcomes recorded into it one at a time, and its
\* p95 read.  fed is every outcome Record was called with, in order.
InitStats == RPInit /\ EngineIdle /\ HandlerIdle /\ sample = NoSample

\* Stats.Record on the sample
SampleRecord(latencyMs, err) ==
    /\ Len(sample.fed) < MaxFed
    /\ sample' = [sample EXCEPT !.outcomes = StatsRecord(@, latencyMs, err),
                                !.fed = Append(@, [LatencyMs |-> latencyMs, Err |-> err])]
    /\ UNCHANGED rpVars
    /\ UNCHANGED engVars
    /\ UNCHANGED <<infer, served, adminVars>>

\* Stats.P95LatencyMs on the sample
SampleP95 ==
    /\ sample' = [sample EXCEPT !.p95 = P95LatencyMs(sample.outcomes)]
    /\ UNCHANGED rpVars
    /\ UNCHANGED engVars
    /\ UNCHANGED <<infer, served, adminVars>>

NextStats ==
    \/ \E l \in Latencies, err \in BOOLEAN : SampleRecord(l, err)
    \/ SampleP95

SpecStats == InitStats /\ [][NextStats]_vars

\* the window WithResilience gives a provider's Stats
ProviderStatsWindow == 100

\* n outcomes equal to o
Run(n, o) == [i \in 1..n |-> o]

\* The Stats of a provider in service (window 100, provider.go line 221)
\* after a run of slow successes, at most one failure, a run of fast
\* successes and another run of slow ones: fewer outcomes than the window,
\* so all of them are held.
Samples ==
    {Run(a, [LatencyMs |-> 2, Err |-> FALSE]) \o Run(c, [LatencyMs |-> 1, Err |-> TRUE])
        \o Run(b, [LatencyMs |-> 1, Err |-> FALSE]) \o Run(d, [LatencyMs |-> 2, Err |-> FALSE]) :
     a \in 0..MaxSlow, b \in 0..MaxRun, c \in 0..1, d \in 0..MaxSlow}

InitP95 ==
    /\ RPInit
    /\ EngineIdle
    /\ HandlerIdle
    /\ \E o \in Samples : sample = [outcomes |-> o, fed |-> o, p95 |-> -1,
                                     windowSize |-> ProviderStatsWindow]

NextP95 == SampleP95

SpecP95 == InitP95 /\ [][NextP95]_vars

\* Stats.Record with the window of the Stats made explicit, once dropping one
\* outcome too many when the ring is full
StatsRecordIntoDropsTwo(outcomes, windowSize, latencyMs, err) ==
    LET all == Append(outcomes, [LatencyMs |-> latencyMs, Err |-> err]) IN
    IF Len(all) > windowSize THEN LastN(all, windowSize - 1) ELSE all

\* Stats.Record with the window of the Stats made explicit
StatsRecordInto(outcomes, windowSize, latencyMs, err) ==
    LastN(Append(outcomes, [LatencyMs |-> latencyMs, Err |-> err]), windowSize)

\* A Stats whose ring is full, or has room for one more outcome, holding one
\* of the samples.
InitRing ==
    /\ RPInit
    /\ EngineIdle
    /\ HandlerIdle
    /\ \E o \in Samples : \E w \in {Len(o), Len(o) + 1} \ {0} :
          sample = [outcomes |-> o, fed |-> o, p95 |-> -1, windowSize |-> w]

\* Stats.Record on the sample, into a ring that is full or about to be
SampleRecordInto(latencyMs, err) ==
    /\ Len(sample.fed) < sample.windowSize + MaxEvict
    /\ sample' = [sample EXCEPT
                    !.outcomes = StatsRecordInto(@, sample.windowSize, latencyMs, err),
                    !.fed = Append(@, [LatencyMs |-> latencyMs, Err |-> err])]
    /\ UNCHANGED rpVars
    /\ UNCHANGED engVars
    /\ UNCHANGED <<infer, served, adminVars>>

NextRing ==
    \E err \in BOOLEAN : \E l \in (IF err THEN {1} ELSE {1, 2, 3}) : SampleRecordInto(l, err)

SpecRing == InitRing /\ [][NextRing]_vars

\* ------------------------------------------------------------ the engine lock
\* Callers of Engine.Choose("canary") and Engine.RecordResult side by side,
\* with e.mu made explicit.  A caller is idle, between Choose's read of
\* e.canary and the return of e.rng.Float64() ("draw", policies.go lines
\* 144-145, no lock held), blocked in e.mu.Lock() ("lock"), or inside
\* RecordResult's critical section ("locked").  A caller's record keeps
\* cheapestPair's results in x and y, RecordResult's argument in chosen and
\* the counter value it read in i.

\* e.mu is held
MuHeld == \E t \in Threads : infer[t].pc = "locked"

\* Choose("canary", model): cheapestPair has returned primary and candidate
ChooseCanaryEnter(t, model) ==
    LET pair == cheapestPair(provs, model) IN
    /\ infer[t].pc = "idle"
    /\ pair.primary # Nil /\ pair.candidate # Nil
    /\ provs' = pair.ps
    /\ infer' = [infer EXCEPT ![t] = [NoRequest EXCEPT !.pc = "draw", !.x = pair.primary,
                                                       !.y = pair.candidate]]
    /\ UNCHANGED <<registered, mockCost, canary, pstats, chosen, obs>>
    /\ UNCHANGED rpVars
    /\ UNCHANGED <<served, adminVars, sample>>

\* p := e.canary.stages[e.canary.stageIdx]; e.rng.Float64() < p
ChooseCanaryDraw(t, u) ==
    /\ infer[t].pc = "draw"
    /\ chosen' = IF u < canary.stages[canary.stageIdx + 1] THEN infer[t].y ELSE infer[t].x
    /\ infer' = [infer EXCEPT ![t] = NoRequest]
    /\ UNCHANGED <<registered, mockCost, provs, canary, pstats, obs>>
    /\ UNCHANGED rpVars
    /\ UNCHANGED <<served, adminVars, sample>>

\* RecordResult(providerName, failed) is called for a registered provider and
\* reaches e.mu.Lock(); failed is not kept, nothing reads it
RecordCall(t, providerName, failed) ==
    /\ infer[t].pc = "idle"
    /\ \E i \in 1..Len(provs) : provs[i] = providerName
    /\ infer' = [infer EXCEPT ![t] = [NoRequest EXCEPT !.pc = "lock", !.chosen = providerName]]
    /\ UNCHANGED engVars
    /\ UNCHANGED rpVars
    /\ UNCHANGED <<served, adminVars, sample>>

\* e.mu.Lock() returning to a caller that found no mutex to wait for
RecordLockNoMutex(t) ==
    /\ infer[t].pc = "lock"
    /\ infer' = [infer EXCEPT ![t].pc = "locked", ![t].i = canary.calls]
    /\ UNCHANGED engVars
    /\ UNCHANGED rpVars
    /\ UNCHANGED <<served, adminVars, sample>>

\* e.mu.Lock() returns: nobody else holds the mutex; the caller goes on to
\* read e.canary.calls
RecordLock(t) ==
    /\ infer[t].pc = "lock"
    /\ ~MuHeld
    /\ infer' = [infer EXCEPT ![t].pc = "locked", ![t].i = canary.calls]
    /\ UNCHANGED engVars
    /\ UNCHANGED rpVars
    /\ UNCHANGED <<served, adminVars, sample>>

\* RecordResult from the increment on, for the counter value calls
CanaryEvaluated(providerName, found, calls) ==
    IF calls % CanaryWindow = 0
    THEN IF found /\ BurnAbove(pstats[providerName], CanaryBurn)
         THEN [canary EXCEPT !.calls = calls, !.stageIdx = 0]
         ELSE IF canary.stageIdx + 1 < Len(canary.stages)
              THEN [canary EXCEPT !.calls = calls, !.stageIdx = @ + 1]
              ELSE [canary EXCEPT !.calls = calls]
    ELSE [canary EXCEPT !.calls = calls]

\* the rest of RecordResult and the deferred e.mu.Unlock()
RecordUnlock(t) ==
    LET r == infer[t] IN
    /\ r.pc = "locked"
    /\ IF r.chosen # canary.candidate
       THEN canary' = canary
       ELSE \E found \in CandidateLookup(r.chosen) :
               canary' = CanaryEvaluated(r.chosen, found, r.i + 1)
    /\ infer' = [infer EXCEPT ![t] = NoRequest]
    /\ UNCHANGED <<registered, mockCost, provs, pstats, chosen, obs>>
    /\ UNCHANGED rpVars
    /\ UNCHANGED <<served, adminVars, sample>>

\* callers inside RecordResult, counted or about to be
Recording == Cardinality({t \in Threads : infer[t].pc \in {"lock", "locked"}})

\* Concurrent RecordResult calls over whole evaluation windows.
NextLock ==
    \/ \E t \in Threads, n \in ProviderNames, failed \in BOOLEAN :
          /\ canary.calls + Recording < MaxWindows * CanaryWindow
          /\ RecordCall(t, n, failed)
    \/ \E t \in Threads : RecordLock(t)
    \/ \E t \in Threads : RecordUnlock(t)
    \/ \E err \in BOOLEAN : ProviderOutcome(canary.candidate, 1, err)

SpecLock == InitCanary /\ [][NextLock]_vars

\* Concurrent Choose("canary") and RecordResult calls.
NextDraw ==
    \/ \E t \in Threads : ChooseCanaryEnter(t, OpenAIModel)
    \/ \E t \in Threads, u \in Draws : ChooseCanaryDraw(t, u)
    \/ \E t \in Threads, n \in ProviderNames, failed \in BOOLEAN :
          /\ canary.calls + Recording < MaxCanaryCalls
          /\ RecordCall(t, n, failed)
    \/ \E t \in Threads : RecordLock(t)
    \/ \E t \in Threads : RecordUnlock(t)

SpecDraw == InitCanary /\ [][NextDraw]_vars

\* ================================================================ claims
Idle == \A t \in Threads : pc[t] = "idle"

\* what caller t holds of its call
Local(t) == <<pc[t], attempt[t], result[t], lastErr[t], callErr[t], ctxDone[t]>>

\* a step in which caller t starts an inner provider attempt
StartsAttempt(t) == pc[t] # "call" /\ pc'[t] = "call"

\* a step in which caller t calls Complete and passes the breaker gate
GateBy(t) == pc[t] = "idle" /\ Local(t)' # Local(t)

\* a step in which caller t records its returned attempt into Stats
RecordBy(t) == pc[t] = "record" /\ pc'[t] # "record"

\* a step in which caller t reports its returned attempt to cb.OnResult
ResultBy(t) == pc[t] = "onresult" /\ pc'[t] # "onresult"

InCooldown(b) == b.open /\ now - b.openedAt < CBCooldown

\* C1: every inner attempt, first or retry, is started behind its own
\* successful Allow, so none is started while the breaker is open and the
\* cooldown has not elapsed.
C1_NoAttemptInsideCooldown ==
    [][\A t \in Threads : StartsAttempt(t) => ~InCooldown(cb)]_vars

\* C2: at most one attempt admitted as the half-open probe is outstanding
\* (admitted, its result not yet applied by OnResult) at any time.
C2_SingleProbeOutstanding == Cardinality({t \in Threads : probe[t]}) <= 1

\* C3: when Allow returns false, Complete returns "circuit open", starts no
\* inner attempt and leaves the Stats ring and the breaker as they were.
C3_RejectionChangesNothing ==
    [][\A t \in Threads :
          (GateBy(t) /\ ~Allow(cb, now).ok) =>
              /\ cb' = cb
              /\ stats' = stats
              /\ owed' = owed
              /\ pc' = pc
              /\ result'[t] = "circuit open"]_vars

C3_Witness == \E t \in Threads : result[t] = "circuit open" /\ Len(stats) > 0

\* C4: the outcomes recorded into Stats are exactly the inner attempts that
\* have returned, one each, and each is reported once to cb.OnResult with the
\* same error flag: the only attempts returned and not recorded, or recorded
\* and not reported, are those of callers between the two calls, and Stats
\* changes only by such a caller appending its attempt's flag.
C4_NoGhostOutcomes ==
    /\ [](LET toRecord == {t \in Threads : pc[t] = "record"}
              toReport == {t \in Threads : pc[t] = "onresult"}
          IN /\ owed.stats = Cardinality(toRecord)
             /\ owed.statsErr = Cardinality({t \in toRecord : callErr[t]})
             /\ owed.cb = Cardinality(toReport)
             /\ owed.cbErr = Cardinality({t \in toReport : callErr[t]}))
    /\ [][/\ stats' # stats => \E t \in Threads : RecordBy(t)
          /\ \A t \in Threads :
                RecordBy(t) =>
                    /\ Len(stats') = (IF Len(stats) < StatsWindow
                                      THEN Len(stats) + 1 ELSE StatsWindow)
                    /\ stats'[Len(stats')].Err = callErr[t]
                    /\ pc'[t] = "onresult"
                    /\ callErr'[t] = callErr[t]]_vars

C4_Witness ==
    /\ Idle
    /\ Len(stats) = StatsWindow
    /\ \E i \in 1..Len(stats) : stats[i].Err
    /\ \E i \in 1..Len(stats) : ~stats[i].Err
    /\ \E t \in Threads : result[t] = "circuit open"

\* C5: an OnResult on a closed breaker opens it if and only if the ring then
\* holds CBWindowSize flags of which strictly more than half are errors.
C5_ClosedOpensIffFullAndMajorityErrors ==
    [][\A t \in Threads :
          (ResultBy(t) /\ ~cb.open) =>
              (cb'.open <=> (/\ Len(cb'.window) = CBWindowSize
                             /\ 2 * CountErrs(cb'.window) > CBWindowSize))]_vars

C5_Witness == cb.open /\ ~cb.halfOpenProbe /\ now = 0

C8_AtMostMaxRetriesPlusOne ==
    /\ [](\A t \in Threads :
            /\ attempt[t] <= MaxRetries + 1
            /\ result[t] = "failure" => (attempt[t] = MaxRetries + 1 /\ lastErr[t])
            /\ result[t] = "ok" => attempt[t] >= 1)
    /\ [][\A t \in Threads :
            /\ (ResultBy(t) /\ ~callErr[t]) => (pc'[t] = "idle" /\ result'[t] = "ok")
            /\ (ResultBy(t) /\ callErr[t] /\ attempt[t] <= MaxRetries)
                   => pc'[t] = "backoff"]_vars

C8_Witness ==
    \E t \in Threads : result[t] = "failure" /\ attempt[t] = MaxRetries + 1

\* C9: once the caller's context is cancelled, Complete starts no further
\* inner attempt.
C9_NoAttemptAfterCancel ==
    [][\A t \in Threads :
          (pc[t] # "idle" /\ ctxDone[t]) => ~StartsAttempt(t)]_vars

\* position of provider n in the registration order
RegIndex(n) == CHOOSE i \in 1..Len(registered) : registered[i] = n

\* C10: in every reachable state Choose("cheapest", model) returns a provider
\* of minimal cost for the model, the first registered among those of equal
\* minimal cost.
C10_CheapestFirstRegisteredArgmin ==
    \A model \in Models :
        Len(registered) > 0 =>
            LET r == ChooseResult("cheapest", model, 0).ret IN
            /\ \E i \in 1..Len(registered) : registered[i] = r
            /\ \A i \in 1..Len(registered) :
                  /\ CostPer1kTokensUSD(r, model) <= CostPer1kTokensUSD(registered[i], model)
                  /\ i < RegIndex(r) =>
                        CostPer1kTokensUSD(r, model) < CostPer1kTokensUSD(registered[i], model)

\* C11: no step of the engine changes the provider list: after construction
\* e.provs keeps its members and their order through every Choose and
\* RecordResult.
C11_ProviderListNeverChanges == [][provs' = provs]_vars

\* the registered providers, as a set
Registered == {registered[i] : i \in 1..Len(registered)}

\* C12: whenever some registered provider has a p95 above 0,
\* Choose("fastest_p95", model) returns a provider whose p95 is the smallest
\* strictly positive one, the first registered among those that share it.
C12_FastestSmallestPositiveFirstRegistered ==
    \A model \in Models :
        (\E n \in Registered : P95LatencyMs(pstats[n]) > 0) =>
            LET r == ChooseResult("fastest_p95", model, 0).ret IN
            /\ r \in Registered
            /\ P95LatencyMs(pstats[r]) > 0
            /\ \A n \in Registered :
                  P95LatencyMs(pstats[n]) > 0 =>
                      /\ P95LatencyMs(pstats[r]) <= P95LatencyMs(pstats[n])
                      /\ RegIndex(n) < RegIndex(r) =>
                            P95LatencyMs(pstats[r]) < P95LatencyMs(pstats[n])

\* C13: while every registered provider has p95 = 0,
\* Choose("fastest_p95", model) returns the provider that
\* Choose("cheapest", model) returns for the same model.
C13_FastestFallsBackToCheapestForModel ==
    \A model \in Models :
        (\A n \in Registered : P95LatencyMs(pstats[n]) = 0) =>
            ChooseResult("fastest_p95", model, 0).ret
                = ChooseResult("cheapest", model, 0).ret

\* C14: Choose("slo_burn_aware", model) returns what Choose("cheapest", model)
\* returns while that provider's error rate is at most the SLO target
\* (burn <= 1.0), and the healthiest alternative once it is above it; a
\* cheapest provider whose window holds only successes is selected again.
C14_BurnAwareSwitchesAboveBudget ==
    \A model \in Models :
        Len(provs) > 0 =>
            LET c == ChooseResult("cheapest", model, 0).ret
                r == ChooseResult("slo_burn_aware", model, 0).ret
                errs == Cardinality({i \in 1..Len(pstats[c]) : pstats[c][i].Err})
                burning == SloTargetInv * errs > Len(pstats[c])
            IN /\ ~burning => r = c
               /\ burning => r = healthyAlternative(provs, model)
               /\ errs = 0 => r = c

C14_Witness ==
    \E model \in Models :
        LET c == ChooseResult("cheapest", model, 0).ret IN
        /\ Len(provs) > 1
        /\ ErrCount(pstats[c]) > 0
        /\ chosen = ChooseResult("slo_burn_aware", model, 0).ret
        /\ chosen # c

\* error rate of provider a strictly below that of provider b
LowerErrorRate(a, b) ==
    RateLess(ErrCount(pstats[a]), Len(pstats[a]), ErrCount(pstats[b]), Len(pstats[b]))

\* C15: when slo_burn_aware switches away from a burning cheapest provider,
\* the provider it returns has the lowest error rate; no provider of the same
\* error rate is cheaper for the model, and none of the same error rate and
\* cost was registered before it.
C15_HealthiestLowestRateThenCostThenRegistration ==
    \A model \in Models :
        LET c == ChooseResult("cheapest", model, 0).ret
            r == ChooseResult("slo_burn_aware", model, 0).ret
        IN (Len(provs) > 0 /\ SloTargetInv * ErrCount(pstats[c]) > Len(pstats[c])) =>
              /\ r \in Registered
              /\ \A n \in Registered :
                    /\ ~LowerErrorRate(n, r)
                    /\ ~LowerErrorRate(r, n) =>
                          /\ CostPer1kTokensUSD(r, model) <= CostPer1kTokensUSD(n, model)
                          /\ ~(/\ CostPer1kTokensUSD(r, model) = CostPer1kTokensUSD(n, model)
                               /\ RegIndex(n) < RegIndex(r))

\* the registered providers that fewer than two others undercut for the model
TwoCheapest(model) ==
    {n \in Registered :
        Cardinality({m \in Registered :
            CostPer1kTokensUSD(m, model) < CostPer1kTokensUSD(n, model)}) < 2}

\* a step in which Choose("canary", model) returns to request t
CanaryReturns(t) == infer[t].pc = "less" /\ infer'[t].pc # "less" /\ infer'[t].pc # "swapRead"

\* C16: with two or more providers, the provider Choose("canary", model)
\* returns is the primary or the candidate, which are the two cheapest
\* registered providers for the model, and never a third one.
C16_CanaryReturnsOneOfTwoCheapest ==
    [][\A t \in Threads :
          CanaryReturns(t) => infer'[t].chosen \in TwoCheapest(infer[t].model)]_vars

\* C17: with exactly one provider registered, Choose("canary", model) returns
\* that provider for every model and every draw, never the null provider.
C17_CanarySingleProviderReturnsIt ==
    Len(registered) = 1 =>
        \A model \in Models, u \in Draws :
            ChooseResult("canary", model, u).ret = registered[1]

\* C18: with no provider registered, Choose returns the null provider for
\* every policy name, known or not, and every request is answered 503: none
\* reaches Complete or RecordResult, and neither the canary state nor any
\* provider's Stats changes.
C18_EmptyRegistryAnswers503 ==
    /\ [](Len(registered) = 0 =>
            /\ \A policy \in Policies, model \in Models, u \in Draws :
                  ChooseResult(policy, model, u).ret = Nil
            /\ \A t \in Threads : infer[t].pc = "idle" /\ infer[t].status \in {0, 503})
    /\ [][(Len(registered) = 0 /\ served' # served) =>
            /\ \E t \in Threads : infer'[t].status = 503
            /\ \A t \in Threads : infer'[t] # infer[t] => infer'[t].status = 503
            /\ canary' = canary
            /\ pstats' = pstats]_vars

C18_Witness ==
    /\ Len(registered) = 0
    /\ served = MaxRequests
    /\ \A t \in Threads : infer[t].status = 503

KnownPolicies == {"cheapest", "fastest_p95", "slo_burn_aware", "canary"}

\* C19: for a policy string that is none of the four known names, the empty
\* string included, Choose(policy, model) returns what Choose("cheapest",
\* model) returns in the same state, and leaves the same provider list.
C19_UnknownPolicyIsCheapest ==
    \A policy \in Policies \ KnownPolicies, model \in Models, u \in Draws :
        ChooseResult(policy, model, u) = ChooseResult("cheapest", model, u)

C19_Witness ==
    \E policy \in Policies \ KnownPolicies, model \in Models :
        /\ chosen # Nil
        /\ chosen = ChooseResult(policy, model, 0).ret
        /\ chosen # ChooseResult("fastest_p95", model, 0).ret
        /\ chosen # ChooseResult("slo_burn_aware", model, 0).ret
        /\ \E u \in Draws : chosen # ChooseResult("canary", model, u).ret

\* a step in which the candidate call counter reaches a positive multiple of
\* the window
WindowBoundary ==
    /\ canary'.calls = canary.calls + 1
    /\ canary'.calls % CanaryWindow = 0

\* the candidate's error rate over the SLO target is above the burn multiplier
CandidateBurning ==
    /\ canary.candidate \in ProviderNames
    /\ Len(pstats[canary.candidate]) > 0
    /\ SloTargetInv * ErrCount(pstats[canary.candidate])
           > CanaryBurn * Len(pstats[canary.candidate])

\* C20: a RecordResult that brings the candidate call counter to a positive
\* multiple of the window while the candidate's burn is above the multiplier
\* leaves stage_idx at 0, whatever the stage was.
C20_BoundaryRollbackWhenBurning ==
    [][(WindowBoundary /\ CandidateBurning) => canary'.stageIdx = 0]_vars

\* every outcome the candidate's Stats ever took is still in its ring and
\* none of them is an error
CandidateAlwaysSucceeded ==
    /\ canary.candidate \in ProviderNames
    /\ Len(pstats[canary.candidate]) = obs
    /\ ErrCount(pstats[canary.candidate]) = 0

LastStage == Len(canary.stages) - 1

C22_FailedWindowResetsStage ==
    [][(WindowBoundary /\ canary.stageIdx > 0) => canary'.stageIdx = 0]_vars

\* C23: RecordResult for a provider that is not the candidate leaves the call
\* counter, stage_idx and every other canary field unchanged: for every
\* provider name but the candidate's, and whatever the lookup finds, the
\* canary state RecordResult leaves is the one it found, and the handler's
\* RecordResult step for such a provider changes no canary field.
C23_OtherProviderLeavesCanaryAlone ==
    /\ [](\A n \in ProviderNames \cup {""} : \A found \in BOOLEAN :
             n # canary.candidate => CanaryAfterRecord(n, found) = canary)
    /\ [][\A t \in Threads :
             (/\ infer[t].pc = "record"
              /\ infer'[t].pc = "idle"
              /\ infer[t].chosen # canary.candidate) => canary' = canary]_vars

\* a non-candidate provider is reported one call short of a window boundary,
\* beyond stage 0 and with the candidate burning: any counting would show
C23_Witness ==
    /\ canary.candidate \in ProviderNames
    /\ canary.calls % CanaryWindow = CanaryWindow - 1
    /\ canary.stageIdx > 0
    /\ CandidateBurning
    /\ \E n \in ProviderNames : n # canary.candidate /\ infer[1].pc = "record" /\ infer[1].chosen = n

\* an admin request was answered in this step
AdminStep(op) == admin'.n = admin.n + 1 /\ admin'.op = op

C25_RollbackResetsStage ==
    [][AdminStep("rollback") =>
          /\ admin'.status = 204
          /\ canary'.stageIdx = 0
          /\ canary' = [canary EXCEPT !.stageIdx = 0]
          /\ (canary.stageIdx = 0 => canary' = canary)]_vars

\* two rollbacks in a row, the first from the last stage reached by a
\* window of candidate calls
C25_Witness ==
    /\ admin.op = "rollback"
    /\ admin.n = MaxAdmin
    /\ canary.stageIdx = 0
    /\ canary.calls >= CanaryWindow

\* the candidate's error rate over the SLO target is above the configured
\* burn multiplier
BurnAboveConfigured ==
    /\ canary.candidate \in ProviderNames
    /\ SloTargetInv * ErrCount(pstats[canary.candidate])
           > configured.burnMultiplier * Len(pstats[canary.candidate])

\* C26: Advance(force=false) is rejected exactly when the candidate's
\* error_rate / slo_target is above the configured burn multiplier, and a
\* rejected Advance leaves the canary state unchanged.
C26_GuardrailRejectsAboveConfiguredBurn ==
    [][(AdminStep("advance") /\ admin'.arg = "guarded") =>
          /\ (admin'.status = 412) <=> BurnAboveConfigured
          /\ (admin'.status = 412) => canary' = canary]_vars

\* C27: an accepted Advance sets stage_idx to min(stage_idx + 1,
\* len(stages) - 1).
C27_AcceptedAdvanceMovesOneStageUp ==
    [][(AdminStep("advance") /\ admin'.status = 204) =>
          canary' = [canary EXCEPT !.stageIdx =
                        IF canary.stageIdx + 1 < Len(canary.stages) - 1
                        THEN canary.stageIdx + 1 ELSE Len(canary.stages) - 1]]_vars

\* two accepted advances, one forced and one past the guardrail, took the
\* controller to the last of three stages within the first window
C27_Witness ==
    /\ admin.op = "advance"
    /\ admin.status = 204
    /\ admin.n = MaxAdmin
    /\ Len(canary.stages) = 3
    /\ canary.stageIdx = 2
    /\ canary.calls < CanaryWindow

\* what the handler does with a request of policy pol once Choose is called
RoutedBy(pol, r) ==
    IF pol = "canary" /\ Len(provs) >= 2
    THEN r.pc = "less"
    ELSE \E m \in Models \ {""}, u \in Draws :
            LET p == ChooseResult(pol, m, u).ret IN
            IF p = Nil THEN r.pc = "idle" /\ r.status = 503
            ELSE r.pc = "complete" /\ r.chosen = p

\* C28: a policy update naming an invalid policy, the empty string or
\* carrying an undecodable body is answered 400 and leaves the default
\* policy unchanged; one naming a valid policy makes it the default, and
\* every later request that names no policy is routed by it.
C28_PolicyUpdateValidatesName ==
    /\ [](/\ ResolvePolicy("") = defPol
          /\ (admin.op = "policy" /\ admin.status = 204) => defPol = admin.arg)
    /\ [][/\ AdminStep("policy") =>
                IF admin'.arg \in ValidPolicies
                THEN admin'.status = 204 /\ defPol' = admin'.arg
                ELSE admin'.status = 400 /\ defPol' = defPol
          /\ served' = served + 1 => RoutedBy(defPol, infer'[1])]_vars

\* the default policy was set to canary and a request naming no policy has
\* entered the canary policy's sort
C28_Witness ==
    /\ admin.op = "policy"
    /\ admin.status = 204
    /\ admin.arg = "canary"
    /\ defPol = "canary"
    /\ infer[1].pc = "less"

\* C29: a Stats holds at most W_stats outcomes, and they are exactly the most
\* recent min(n, W_stats) of the n outcomes recorded, in recording order.
C29_StatsKeepsMostRecent ==
    LET n == Len(sample.fed)
        k == Len(sample.outcomes)
    IN /\ k <= StatsWindow
       /\ k = IF n < StatsWindow THEN n ELSE StatsWindow
       /\ \A i \in 1..k : sample.outcomes[i] = sample.fed[n - k + i]

\* more outcomes recorded than the window holds, the oldest one unlike the
\* oldest one held
C29_Witness ==
    /\ Len(sample.fed) > StatsWindow
    /\ Len(sample.outcomes) = StatsWindow
    /\ sample.outcomes[1] # sample.fed[1]

\* the successful outcomes of the sample
Successes == {i \in 1..Len(sample.outcomes) : ~sample.outcomes[i].Err}

\* the least k with k >= 0.95 * n
Ceil95(n) == CHOOSE k \in 0..n : 100 * k >= 95 * n /\ 100 * (k - 1) < 95 * n

\* C30: p95_latency_ms() is the element at index ceil(0.95*N) - 1 of the
\* ascending sort of the N successful latencies, and 0 when there is none:
\* it is a successful latency with at least ceil(0.95*N) successful
\* latencies at or below it and fewer than ceil(0.95*N) strictly below it.
C30_P95IsCeilingIndexOfSuccesses ==
    sample.p95 # -1 =>
        LET N == Cardinality(Successes)
            atMost == {i \in Successes : sample.outcomes[i].LatencyMs <= sample.p95}
            below == {i \in Successes : sample.outcomes[i].LatencyMs < sample.p95}
        IN IF N = 0
           THEN sample.p95 = 0
           ELSE /\ \E i \in Successes : sample.outcomes[i].LatencyMs = sample.p95
                /\ Cardinality(atMost) >= Ceil95(N)
                /\ Cardinality(below) < Ceil95(N)

\* a failure among twenty successes whose slowest one is alone: the p95 is
\* the nineteenth of the sorted latencies, not the last
C30_Witness ==
    /\ sample.p95 = 1
    /\ Cardinality(Successes) = 20
    /\ \E i \in 1..Len(sample.outcomes) : sample.outcomes[i].Err
    /\ \E i \in Successes : sample.outcomes[i].LatencyMs = 2

\* the outcome the last Record on the sample was called with
Recorded == sample'.fed[Len(sample'.fed)]

\* C31: for any Stats, a full ring that drops its oldest outcome included,
\* recording a successful outcome whose latency is at least the current
\* p95_latency_ms() leaves a p95_latency_ms() that is not smaller.
C31_P95MonotoneUnderSlowSuccess ==
    [][(/\ Len(sample'.fed) = Len(sample.fed) + 1
        /\ ~Recorded.Err
        /\ Recorded.LatencyMs >= P95LatencyMs(sample.outcomes)) =>
          P95LatencyMs(sample'.outcomes) >= P95LatencyMs(sample.outcomes)]_vars

\* a full ring of twenty-one successes, the two oldest and slowest of them
\* alone at the p95, has dropped one of the two for a success as slow
C31_Witness ==
    /\ Len(sample.fed) = sample.windowSize + 1
    /\ Len(sample.outcomes) = sample.windowSize
    /\ Cardinality(Successes) = 21
    /\ sample.fed[1].LatencyMs = 2
    /\ sample.fed[2].LatencyMs = 2
    /\ sample.fed[Len(sample.fed)] = [LatencyMs |-> 2, Err |-> FALSE]
    /\ Cardinality({i \in Successes : sample.outcomes[i].LatencyMs = 2}) = 2
    /\ P95LatencyMs(sample.outcomes) = 2

Finishes(t) == infer[t].pc = "record" /\ infer'[t].pc = "idle"

\* C33: for every request Choose returned a provider for, the handler calls
\* RecordResult exactly once, after Complete has returned and with that
\* provider's name, whatever the policy and also when Complete was rejected
\* by the breaker: a request leaves Complete only towards RecordResult, is
\* answered 200 or 502 only by the step that calls it, and the candidate
\* call counter moves by one exactly in the steps that finish a request
\* routed to the candidate.
C33_RecordResultOncePerRequest ==
    [][/\ \A t \in Threads :
            /\ (infer[t].pc = "complete" /\ infer'[t] # infer[t]) => infer'[t].pc = "record"
            /\ (infer'[t].status \in {200, 502} /\ infer'[t] # infer[t]) => Finishes(t)
            /\ Finishes(t) =>
                  canary'.calls = canary.calls
                                    + (IF infer[t].chosen = canary.candidate THEN 1 ELSE 0)
       /\ (\A t \in Threads : ~Finishes(t)) => canary'.calls = canary.calls]_vars

\* every request taken was routed to the candidate and rejected by its
\* breaker (no outcome reached the Stats), and each one was counted
C33_Witness ==
    /\ served = MaxRequests
    /\ canary.calls = MaxRequests
    /\ obs = 0
    /\ \A t \in Threads : infer[t].pc = "idle"
    /\ \E t \in Threads : infer[t].status = 502

\* C34: the half_open transition is decided only by the result of the attempt
\* that Allow admitted as the probe: while a probe is outstanding, an OnResult
\* for an attempt admitted earlier neither closes the breaker, nor reopens it,
\* nor clears the probe-outstanding flag.
C34_OnlyProbeDecidesHalfOpen ==
    [][\A t \in Threads :
          (/\ ResultBy(t)
           /\ ~probe[t]
           /\ cb.open /\ cb.halfOpenProbe
           /\ \E o \in Threads \ {t} : probe[o]) =>
              /\ cb'.open
              /\ cb'.halfOpenProbe
              /\ cb'.openedAt = cb.openedAt]_vars

\* C35: with two or more providers, for every model the provider that
\* Choose("canary", model) returns for a draw below the split of the current
\* stage is the provider named e.canary.candidate.
C35_BelowSplitIsNamedCandidate ==
    Len(registered) >= 2 =>
        \A model \in Models, u \in Draws :
            u < canary.stages[canary.stageIdx + 1] =>
                ChooseResult("canary", model, u).ret = canary.candidate

Closed(b) == StateValue(b) = 2
Open(b) == StateValue(b) = 0
HalfOpen(b) == StateValue(b) = 1

\* C37: the breaker only ever moves closed->open, open->half_open,
\* half_open->closed and half_open->open: no OnResult takes an open breaker
\* with no probe outstanding to closed (a success arriving then leaves it
\* open), and no Allow() takes a closed breaker to half_open.
C37_OnlyFourTransitions ==
    [][/\ StateValue(cb') # StateValue(cb) =>
             \/ Closed(cb) /\ Open(cb')
             \/ Open(cb) /\ HalfOpen(cb')
             \/ HalfOpen(cb) /\ Closed(cb')
             \/ HalfOpen(cb) /\ Open(cb')
       /\ \A t \in Threads :
             /\ (ResultBy(t) /\ Open(cb)) => Open(cb')
             /\ (GateBy(t) /\ Closed(cb)) => Closed(cb')
             /\ (GateBy(t) /\ StateValue(cb') # StateValue(cb)) =>
                    (Open(cb) /\ HalfOpen(cb'))
             /\ (ResultBy(t) /\ StateValue(cb') # StateValue(cb)) => ~HalfOpen(cb')]_vars

\* a success was reported to an open breaker with no probe outstanding, and
\* the breaker is still open
C37_Witness ==
    /\ Open(cb)
    /\ \A t \in Threads : ~probe[t]
    /\ Len(cb.window) = CBWindowSize
    /\ ~cb.window[CBWindowSize]
    /\ \E t \in Threads : result[t] = "ok" /\ pc[t] = "idle"

\* caller t has an attempt admitted and not yet reported to cb.OnResult, or
\* is between two attempts of the same Complete
InFlight(t) == pc[t] \in {"call", "record", "onresult", "backoff"}

\* C38: the breaker never wedges: where every inner call returns, time keeps
\* advancing and Complete keeps being called, a breaker that is open
\* eventually admits a probe and a breaker that is half_open eventually
\* receives an OnResult, and it is never half_open with no attempt in flight.
C38_BreakerNeverWedges ==
    /\ [](HalfOpen(cb) => \E t \in Threads : InFlight(t))
    /\ (Open(cb) ~> HalfOpen(cb))
    /\ (HalfOpen(cb) ~> ~HalfOpen(cb))

\* a probe admitted after time has run past MaxTime is about to report
C38_Witness ==
    /\ HalfOpen(cb)
    /\ now = MaxTime
    /\ cb.openedAt = now - CBCooldown
    /\ \E t \in Threads : probe[t] /\ pc[t] = "onresult" /\ callErr[t]
    /\ \E t \in Threads : result[t] = "circuit open"

\* a step in which caller t leaves RecordResult, called for the candidate
Counts(t) ==
    /\ infer[t].pc = "locked"
    /\ infer'[t].pc = "idle"
    /\ infer[t].chosen = canary.candidate

\* C39: under any interleaving of concurrent RecordResult calls naming the
\* candidate, each call increments the candidate counter exactly once and
\* there is exactly one window evaluation (advance, rollback, or nothing at
\* the last stage) per CanaryWindow such calls: at most one caller is inside
\* the critical section, each call that leaves it has raised the counter by
\* one, nothing else changes the counter, and stage_idx changes with the call
\* that brings the counter to a multiple of the window and with no other.
C39_NoLostOrDuplicatedIncrement ==
    /\ [](Cardinality({t \in Threads : infer[t].pc = "locked"}) <= 1)
    /\ [][/\ \A t \in Threads : Counts(t) => canary'.calls = canary.calls + 1
          /\ (\A t \in Threads : ~Counts(t)) => canary' = canary
          /\ WindowBoundary =>
                canary'.stageIdx = IF CandidateBurning THEN 0
                                   ELSE IF canary.stageIdx + 1 < Len(canary.stages)
                                        THEN canary.stageIdx + 1
                                        ELSE canary.stageIdx
          /\ ~WindowBoundary => canary'.stageIdx = canary.stageIdx]_vars

\* the call that closed the first window has advanced the stage, the next
\* caller is inside the critical section and a third call waits for the mutex
C39_Witness ==
    /\ canary.calls = CanaryWindow
    /\ canary.stageIdx = 1
    /\ \E t \in Threads :
          /\ infer[t].pc = "locked" /\ infer[t].chosen = canary.candidate
          /\ infer[t].i = CanaryWindow
          /\ \E o \in Threads \ {t} :
                infer[o].pc = "lock" /\ infer[o].chosen = canary.candidate

====
